---- MODULE Spec2Model ----
(***************************************************************************)
(* A model of backend/server.js: the Express middleware stack (helmet,     *)
(* the two express-rate-limit instances, morgan, cors, the body parsers,   *)
(* the static servers, the routes, the error handler and the 404           *)
(* responder), and connectDB: mongoose.connect, app.listen, the server's   *)
(* 'error' listener and the SIGTERM handler.                               *)
(*                                                                         *)
(* The libraries are modelled by what they do with the options server.js   *)
(* passes them: express-rate-limit counts a hit when the request arrives,  *)
(* rejects when the count is above max, and with skipSuccessfulRequests    *)
(* takes the hit back when the response finishes with a status below 400;  *)
(* net.Server.close stops accepting and runs its callback on 'close', once *)
(* no connection is left; mongoose.connection.close(false, cb) calls cb    *)
(* with or without an error.                                               *)
(***************************************************************************)
EXTENDS Integers, Sequences, FiniteSets, TLC

VARIABLES
    nodeEnv,        \* process.env.NODE_ENV
    frontendUrl,    \* process.env.FRONTEND_URL
    dbState,        \* "connecting" | "connected" | "closing" | "closed" | "failed"
    listening,      \* the server holds a listening handle (server._handle)
    everBound,      \* a listening port was bound at some point
    sigHandler,     \* process.on('SIGTERM', ...) has been registered
    exitCode,       \* -1 while the process runs, else the code given to process.exit
    sigterms,       \* SIGTERM signals delivered so far
    closeCbs,       \* server.close callbacks waiting for the server's 'close' event
    dbCbs,          \* mongoose.connection.close callbacks not yet called
    idle,           \* open connections with no request in flight (keep-alive)
    pendingPlain,   \* requests in a route handler, no authLimiter hook
    pendingAuth,    \* per client: requests in a route handler with authLimiter's 'finish' hook
    genHits,        \* limiter's store: hits per client in the current window
    authHits,       \* authLimiter's store: hits per client in the current window
    ev,             \* the step that led to this state
    last,           \* what the middleware stack did with the last request
    obs             \* observations of the run, read by the properties only

vars == <<nodeEnv, frontendUrl, dbState, listening, everBound, sigHandler, exitCode,
          sigterms, closeCbs, dbCbs, idle, pendingPlain, pendingAuth, genHits,
          authHits, ev, last, obs>>

envVars  == <<nodeEnv, frontendUrl>>
procVars == <<dbState, listening, everBound, sigHandler, exitCode, sigterms, closeCbs, dbCbs>>
connVars == <<idle, pendingPlain, pendingAuth>>
hitVars  == <<genHits, authHits>>

-----------------------------------------------------------------------------
(* Bounds of the model. *)

NumClients == 2
MaxConns == 3
MaxSignals == 2
HitSlack == 2
LifeHits == 3

(* Program constants. *)
GeneralMax == 100
AuthMax == 5

Clients == 1..NumClients

Undefined == "<undefined>"

-----------------------------------------------------------------------------
(* The CORS origin callback, server.js 51-69. *)

Boolean(x) == x # Undefined /\ x # ""

RECURSIVE FilterBoolean(_)
FilterBoolean(s) ==
    IF s = <<>> THEN <<>>
    ELSE IF Boolean(Head(s)) THEN <<Head(s)>> \o FilterBoolean(Tail(s))
         ELSE FilterBoolean(Tail(s))

Includes(s, x) == \E i \in 1..Len(s) : s[i] = x

allowed(feUrl) ==
    FilterBoolean(<<"http://localhost:3000", "http://localhost:5173", feUrl>>)

\* corsOrigin with && for ||
corsOriginAnd(origin, env, feUrl) ==
    IF ~Boolean(origin) THEN "allow"
    ELSE IF Includes(allowed(feUrl), origin) /\ env # "production" THEN "allow"
    ELSE "deny"

\* callback(null, true) is "allow", callback(new Error('Not allowed by CORS')) is "deny"
corsOrigin(origin, env, feUrl) ==
    IF ~Boolean(origin) THEN "allow"
    ELSE IF Includes(allowed(feUrl), origin) \/ env # "production" THEN "allow"
    ELSE "deny"

credentials == TRUE

CorsDecision(origin, env, feUrl) ==
    [allow |-> corsOrigin(origin, env, feUrl) = "allow",
     credentials |-> corsOrigin(origin, env, feUrl) = "allow" /\ credentials]

-----------------------------------------------------------------------------
(* The middleware stack, server.js 17-131, in the order of the app.use and  *)
(* app.get calls. A path is the sequence of its segments: "/" is << >>.     *)

Layer(name, kind, prefix) == [name |-> name, kind |-> kind, prefix |-> prefix]

\* Admission with app.use(cors(corsOptions)) moved above the limiters
AdmissionCorsFirst ==
    << Layer("helmet", "use", <<>>),
       Layer("cors", "use", <<>>),
       Layer("limiter", "use", <<"api">>),
       Layer("authLimiter", "use", <<"api", "auth", "login">>),
       Layer("authLimiter", "use", <<"api", "auth", "register">>),
       Layer("morgan", "use", <<>>),
       Layer("json", "use", <<>>),
       Layer("urlencoded", "use", <<>>) >>

\* helmet, the limiters, morgan, cors and the body parsers, server.js 17-77
Admission ==
    << Layer("helmet", "use", <<>>),
       Layer("limiter", "use", <<"api">>),
       Layer("authLimiter", "use", <<"api", "auth", "login">>),
       Layer("authLimiter", "use", <<"api", "auth", "register">>),
       Layer("morgan", "use", <<>>),
       Layer("cors", "use", <<>>),
       Layer("json", "use", <<>>),
       Layer("urlencoded", "use", <<>>) >>

\* the static servers, the root responder, the routers and the health check,
\* server.js 82-117
Dispatch ==
    << Layer("static", "use", <<"api", "uploads">>),
       Layer("static", "use", <<"api", "uploads", "leaves">>),
       Layer("root", "get", <<>>),
       Layer("router", "use", <<"api", "auth">>),
       Layer("router", "use", <<"api", "attendance">>),
       Layer("router", "use", <<"api", "dashboard">>),
       Layer("router", "use", <<"api", "badges">>),
       Layer("router", "use", <<"api", "profile">>),
       Layer("router", "use", <<"api", "leaves">>),
       Layer("router", "use", <<"api", "leave-types">>),
       Layer("router", "use", <<"api", "notifications">>),
       Layer("router", "use", <<"api", "leave-analytics">>),
       Layer("health", "get", <<"api", "health">>) >>

\* Fallback without app.use(errorHandler)
FallbackNoErrorHandler == << Layer("notFound", "use", <<>>) >>

\* the error handler and the 404 responder, server.js 119-131
Fallback ==
    << Layer("errorHandler", "error", <<>>),
       Layer("notFound", "use", <<>>) >>

Stack == Admission \o Dispatch \o Fallback

\* the stages that serve a request: the static servers, the responders, the routers
DispatchStages == {"static", "root", "router", "health"}

StartsWith(path, prefix) ==
    Len(prefix) <= Len(path) /\ SubSeq(path, 1, Len(prefix)) = prefix

\* app.use(prefix, fn) matches the prefix at a segment boundary; app.get(path, fn)
\* matches the method and the whole path
Matches(layer, req) ==
    IF layer.kind = "get"
    THEN req.method = "GET" /\ req.path = layer.prefix
    ELSE StartsWith(req.path, layer.prefix)

(* express-rate-limit, as configured at server.js 20-26 and 30-35 *)
Increment(hits, key) == [hits EXCEPT ![key] = @ + 1]

Decrement(hits, key) == IF hits[key] > 0 THEN [hits EXCEPT ![key] = @ - 1] ELSE hits

\* RateLimitExceeded with >= for >
RateLimitExceededAtMax(totalHits, max) == totalHits >= max

RateLimitExceeded(totalHits, max) == totalHits > max

\* skipSuccessfulRequests: requestWasSuccessful is response.statusCode < 400
RequestWasSuccessful(status) == status < 400

\* middleware/errorHandler.js: it answers with the error's status, 500 without one
ErrorHandler(a) ==
    [a EXCEPT !.ctl = "end", !.status = IF a.status >= 400 THEN a.status ELSE 500]

\* One layer's handler. acc.ctl is what the handler did: "next" (next()),
\* "error" (next(err)), "end" (the response was sent), "pending" (a route handler
\* took the request and answers later).
RunLayer(layer, req, acc, env, feUrl) ==
    LET a == [acc EXCEPT !.trace = Append(@, layer.name)] IN
    CASE layer.name = "limiter" ->
           LET h == Increment(a.gen, req.client) IN
           IF RateLimitExceeded(h[req.client], GeneralMax)
           THEN [a EXCEPT !.gen = h, !.ctl = "end", !.status = 429, !.by = "limiter"]
           ELSE [a EXCEPT !.gen = h]
      [] layer.name = "authLimiter" ->
           LET h == Increment(a.auth, req.client) IN
           IF RateLimitExceeded(h[req.client], AuthMax)
           THEN [a EXCEPT !.auth = h, !.hook = TRUE, !.ctl = "end", !.status = 429,
                          !.by = "authLimiter"]
           ELSE [a EXCEPT !.auth = h, !.hook = TRUE]
      [] layer.name = "cors" ->
           IF corsOrigin(req.origin, env, feUrl) = "deny"
           THEN [a EXCEPT !.ctl = "error", !.status = 500, !.by = "cors"]
           ELSE a
      [] layer.name = "json" ->
           IF req.badBody
           THEN [a EXCEPT !.ctl = "error", !.status = 400, !.by = "json"]
           ELSE a
      [] layer.name = "static" ->
           IF req.method = "GET" /\ req.fileExists
           THEN [a EXCEPT !.ctl = "end", !.status = 200, !.by = "static"]
           ELSE a
      [] layer.name \in {"root", "health"} ->
           [a EXCEPT !.ctl = "end", !.status = 200, !.by = layer.name]
      [] layer.name = "router" ->
           [a EXCEPT !.ctl = "pending", !.by = "router"]
      [] layer.name = "errorHandler" -> ErrorHandler(a)
      [] layer.name = "notFound" ->
           [a EXCEPT !.ctl = "end", !.status = 404, !.by = "notFound"]
      [] OTHER -> a

\* Express's router: the layers in order; after next(err) only error-handling
\* layers run, and without an error they are skipped. (The layer's result is
\* bound once, as the one element of a set, and used twice.)
RECURSIVE Walk(_, _, _, _, _)
Walk(i, req, acc, env, feUrl) ==
    IF i > Len(Stack) THEN acc
    ELSE LET layer == Stack[i] IN
         IF ~Matches(layer, req) \/ ((acc.ctl = "error") # (layer.kind = "error"))
         THEN Walk(i + 1, req, acc, env, feUrl)
         ELSE CHOOSE out \in { IF a.ctl \in {"end", "pending"} THEN a
                               ELSE Walk(i + 1, req, a, env, feUrl) :
                               a \in {RunLayer(layer, req, acc, env, feUrl)} } : TRUE

Handle(req, gen, auth, env, feUrl) ==
    Walk(1, req,
         [gen |-> gen, auth |-> auth, trace |-> <<>>, ctl |-> "next", status |-> 0,
          by |-> "none", hook |-> FALSE],
         env, feUrl)

-----------------------------------------------------------------------------
(* Requests the clients may send. *)

Origins == {Undefined, "", "http://localhost:3000", "http://localhost:5173",
            "https://app.example.com", "http://evil.example"}

Req(c, m, p, o, f, b) ==
    [client |-> c, method |-> m, path |-> p, origin |-> o, fileExists |-> f, badBody |-> b]

NoReq == Req(0, "none", <<>>, Undefined, FALSE, FALSE)

NoLast == [req |-> NoReq, trace |-> <<>>, status |-> 0, by |-> "none", ctl |-> "none",
           genBefore |-> 0, authBefore |-> 0, failedBefore |-> 0, shadowBefore |-> 0]

Zero == [c \in Clients |-> 0]

NoObs == [closedFired |-> FALSE, dbFired |-> FALSE, dbErr |-> FALSE, lateAccept |-> FALSE,
          aborted |-> 0, atSignal |-> 0, genSeq |-> Zero, authFailed |-> Zero,
          authRejected |-> Zero,
          authShadow |-> Zero, pendingOld |-> Zero,
          resp |-> [result |-> "none", trace |-> <<>>, status |-> 0, ctl |-> "none"]]

RECURSIVE Sum(_, _)
Sum(f, S) == IF S = {} THEN 0 ELSE LET x == CHOOSE y \in S : TRUE IN f[x] + Sum(f, S \ {x})

Busy == pendingPlain + Sum(pendingAuth, Clients)

Alive == exitCode = -1

-----------------------------------------------------------------------------
(* The process: connectDB, server.js 136-175. *)

Init ==
    /\ nodeEnv \in {Undefined, "production", "development"}
    /\ frontendUrl \in {Undefined, "", "https://app.example.com"}
    /\ dbState = "connecting"
    /\ listening = FALSE
    /\ everBound = FALSE
    /\ sigHandler = FALSE
    /\ exitCode = -1
    /\ sigterms = 0
    /\ closeCbs = 0
    /\ dbCbs = 0
    /\ idle = 0
    /\ pendingPlain = 0
    /\ pendingAuth = Zero
    /\ genHits = Zero
    /\ authHits = Zero
    /\ ev = "start"
    /\ last = NoLast
    /\ obs = NoObs

\* process.exit(code): the requests still in flight are cut off
ProcessExit(code) ==
    /\ exitCode' = code
    /\ obs' = [obs EXCEPT !.aborted = Busy]

\* await mongoose.connect(...) resolved, app.listen(PORT) bound the port, the
\* 'error' and SIGTERM listeners are registered (138-168)
ListenOk ==
    /\ Alive /\ dbState = "connecting"
    /\ dbState' = "connected"
    /\ listening' = TRUE
    /\ everBound' = TRUE
    /\ sigHandler' = TRUE
    /\ ev' = "listen"
    /\ UNCHANGED <<envVars, exitCode, sigterms, closeCbs, dbCbs, connVars, hitVars, last, obs>>

\* mongoose.connect resolved, app.listen failed (EADDRINUSE): server.on('error')
\* runs on the next tick and exits with 1 (151-159)
ListenFail ==
    /\ Alive /\ dbState = "connecting"
    /\ dbState' = "connected"
    /\ sigHandler' = TRUE
    /\ ProcessExit(1)
    /\ ev' = "listenError"
    /\ UNCHANGED <<envVars, listening, everBound, sigterms, closeCbs, dbCbs, connVars,
                   hitVars, last>>

\* ConnectFail with app.listen outside the try block and no process.exit
ConnectFailStillListens ==
    /\ Alive /\ dbState = "connecting"
    /\ dbState' = "failed"
    /\ listening' = TRUE
    /\ everBound' = TRUE
    /\ sigHandler' = TRUE
    /\ ev' = "connectError"
    /\ UNCHANGED <<envVars, exitCode, sigterms, closeCbs, dbCbs, connVars, hitVars, last, obs>>

\* mongoose.connect rejected: the catch block (169-172)
ConnectFail ==
    /\ Alive /\ dbState = "connecting"
    /\ dbState' = "failed"
    /\ ProcessExit(1)
    /\ ev' = "connectError"
    /\ UNCHANGED <<envVars, listening, everBound, sigHandler, sigterms, closeCbs, dbCbs,
                   connVars, hitVars, last>>

\* what the server's 'error' listener does (151-159): both branches exit with 1
OnServerError == ProcessExit(1)

\* the listening handle reports an error (an accept error) while the server runs
ServerError ==
    /\ Alive /\ listening
    /\ OnServerError
    /\ ev' = "serverError"
    /\ UNCHANGED <<envVars, dbState, listening, everBound, sigHandler, sigterms, closeCbs,
                   dbCbs, connVars, hitVars, last>>

\* the listening handle accepts a connection
Accept(maxConns) ==
    /\ Alive /\ listening
    /\ idle + Busy < maxConns
    /\ idle' = idle + 1
    /\ obs' = [obs EXCEPT !.lateAccept = @ \/ sigterms > 0]
    /\ ev' = "accept"
    /\ UNCHANGED <<envVars, procVars, pendingPlain, pendingAuth, hitVars, last>>

\* an idle connection is closed (by the client, or by the keep-alive timeout)
ConnClose ==
    /\ Alive /\ idle > 0
    /\ idle' = idle - 1
    /\ ev' = "connClose"
    /\ UNCHANGED <<envVars, procVars, pendingPlain, pendingAuth, hitVars, last, obs>>

-----------------------------------------------------------------------------
(* Requests and responses. *)

UnderApi(req) == StartsWith(req.path, <<"api">>)

\* What a router does with a request it took: "ok" (it answers 2xx), "fail" (it
\* answers 4xx), "throw" (next(err)), "miss" (no route of it matches: next()).
Results == {"ok", "fail", "throw", "miss"}

\* a path under one router's prefix is under no later layer's but the last two
AfterRouters == Len(Admission) + Len(Dispatch)

\* The rest of the stack after the router: the response of a taken request.
Finish(result, env, feUrl) ==
    LET acc == [gen |-> Zero, auth |-> Zero, trace |-> <<"router">>, ctl |-> "next",
                status |-> 0, by |-> "router", hook |-> FALSE]
        req == Req(1, "GET", <<"api", "auth">>, Undefined, FALSE, FALSE)
    IN CASE result = "ok" -> [acc EXCEPT !.ctl = "end", !.status = 200]
         [] result = "fail" -> [acc EXCEPT !.ctl = "end", !.status = 401]
         [] result = "throw" -> Walk(AfterRouters, req, [acc EXCEPT !.ctl = "error"], env, feUrl)
         [] OTHER -> Walk(AfterRouters, req, acc, env, feUrl)

StatusOf(result, env, feUrl) == Finish(result, env, feUrl).status

\* A request arrives on an open connection and runs down the stack until a layer
\* answers it or a route handler takes it.
Request(req) ==
    \E r \in {Handle(req, genHits, authHits, nodeEnv, frontendUrl)} :
    LET c == req.client
        done == r.ctl # "pending"
        success == done /\ RequestWasSuccessful(r.status)
    IN
    /\ Alive /\ idle > 0
    /\ genHits' = r.gen
    /\ authHits' = IF r.hook /\ success THEN Decrement(r.auth, c) ELSE r.auth
    /\ idle' = IF done THEN idle ELSE idle - 1
    /\ pendingAuth' = IF ~done /\ r.hook THEN [pendingAuth EXCEPT ![c] = @ + 1]
                      ELSE pendingAuth
    /\ pendingPlain' = IF ~done /\ ~r.hook THEN pendingPlain + 1 ELSE pendingPlain
    /\ last' = [req |-> req, trace |-> r.trace, status |-> r.status, by |-> r.by,
                ctl |-> r.ctl, genBefore |-> obs.genSeq[c], authBefore |-> authHits[c],
                failedBefore |-> obs.authFailed[c], shadowBefore |-> obs.authShadow[c]]
    /\ obs' = [obs EXCEPT
                 !.genSeq[c] = IF UnderApi(req) THEN @ + 1 ELSE @,
                 !.authFailed[c] = IF r.hook /\ done /\ ~success /\ r.by # "authLimiter"
                                   THEN @ + 1 ELSE @,
                 !.authRejected[c] = IF r.by = "authLimiter" THEN @ + 1 ELSE @,
                 !.authShadow[c] = IF r.hook /\ ~success THEN @ + 1 ELSE @]
    /\ ev' = "request"
    /\ UNCHANGED <<envVars, procVars>>

Resp(result, env, feUrl) ==
    LET r == Finish(result, env, feUrl) IN
    [result |-> result, trace |-> r.trace, status |-> r.status, ctl |-> r.ctl]

\* A route handler finishes a request that passed only the general limiter.
RespondPlain(result) ==
    /\ Alive /\ pendingPlain > 0
    /\ pendingPlain' = pendingPlain - 1
    /\ idle' = idle + 1
    /\ obs' = [obs EXCEPT !.resp = Resp(result, nodeEnv, frontendUrl)]
    /\ ev' = "respond"
    /\ UNCHANGED <<envVars, procVars, pendingAuth, hitVars, last>>

\* A route handler finishes a login or register request: authLimiter's 'finish'
\* hook takes the hit back when the status is below 400. old: the request was
\* counted before the client's window was last reset.
RespondAuth(c, result, old) ==
    LET success == RequestWasSuccessful(StatusOf(result, nodeEnv, frontendUrl)) IN
    /\ Alive
    /\ IF old THEN obs.pendingOld[c] > 0 ELSE pendingAuth[c] > obs.pendingOld[c]
    /\ pendingAuth' = [pendingAuth EXCEPT ![c] = @ - 1]
    /\ idle' = idle + 1
    /\ authHits' = IF success THEN Decrement(authHits, c) ELSE authHits
    /\ obs' = [obs EXCEPT
                 !.resp = Resp(result, nodeEnv, frontendUrl),
                 !.pendingOld[c] = IF old THEN @ - 1 ELSE @,
                 !.authFailed[c] = IF ~old /\ ~success THEN @ + 1 ELSE @,
                 !.authShadow[c] = IF ~old /\ success THEN @ - 1 ELSE @]
    /\ ev' = "respond"
    /\ UNCHANGED <<envVars, procVars, pendingPlain, genHits, last>>

\* The window of client c ends in limiter's store.
GenReset(c) ==
    /\ Alive /\ listening
    /\ genHits[c] > 0
    /\ genHits' = [genHits EXCEPT ![c] = 0]
    /\ obs' = [obs EXCEPT !.genSeq[c] = 0]
    /\ ev' = "genReset"
    /\ UNCHANGED <<envVars, procVars, connVars, authHits, last>>

\* The window of client c ends in authLimiter's store.
AuthReset(c) ==
    /\ Alive /\ listening
    /\ authHits[c] > 0
    /\ authHits' = [authHits EXCEPT ![c] = 0]
    /\ obs' = [obs EXCEPT !.authFailed[c] = 0, !.authRejected[c] = 0, !.authShadow[c] = 0,
                          !.pendingOld[c] = pendingAuth[c]]
    /\ ev' = "authReset"
    /\ UNCHANGED <<envVars, procVars, connVars, genHits, last>>

-----------------------------------------------------------------------------
(* Graceful shutdown, server.js 161-168. *)

\* OnSigterm with mongoose.connection.close called beside server.close, not in
\* its callback
OnSigtermDbFirst ==
    /\ listening' = FALSE
    /\ closeCbs' = closeCbs
    /\ dbState' = IF dbState = "connected" THEN "closing" ELSE dbState
    /\ dbCbs' = dbCbs + 1

\* OnSigterm waiting for 'close' without calling server.close
OnSigtermKeepsListening ==
    /\ listening' = listening
    /\ closeCbs' = closeCbs + 1
    /\ UNCHANGED <<dbState, dbCbs>>

\* the SIGTERM listener: server.close(cb) closes the listening handle and leaves
\* cb waiting for the server's 'close' event
OnSigterm ==
    /\ listening' = FALSE
    /\ closeCbs' = closeCbs + 1
    /\ UNCHANGED <<dbState, dbCbs>>

Sigterm ==
    /\ Alive /\ sigHandler
    /\ sigterms < MaxSignals
    /\ sigterms' = sigterms + 1
    /\ OnSigterm
    /\ obs' = [obs EXCEPT !.atSignal = IF sigterms = 0 THEN Busy ELSE @]
    /\ ev' = "sigterm"
    /\ UNCHANGED <<envVars, everBound, sigHandler, exitCode, connVars, hitVars, last>>

\* the server emits 'close' when it no longer listens and no connection is left
CloseEmitted == ~listening /\ everBound /\ idle + Busy = 0

\* every waiting server.close callback runs: mongoose.connection.close(false, cb)
OnListenerClosed ==
    /\ dbState' = IF dbState = "connected" THEN "closing" ELSE dbState
    /\ dbCbs' = dbCbs + closeCbs
    /\ closeCbs' = 0

EmitClose ==
    /\ Alive /\ closeCbs > 0
    /\ CloseEmitted
    /\ OnListenerClosed
    /\ obs' = [obs EXCEPT !.closedFired = TRUE]
    /\ ev' = "listenerClosed"
    /\ UNCHANGED <<envVars, listening, everBound, sigHandler, exitCode, sigterms, connVars,
                   hitVars, last>>

\* OnDbClosed returning early on an error
OnDbClosedReturnsOnError(err) == exitCode' = IF err THEN exitCode ELSE 0

\* the callback given to mongoose.connection.close: it ignores its error argument
OnDbClosed(err) == exitCode' = 0

\* the connection is closed, or closing it failed, and a callback is called
DbCloseCallback(err) ==
    /\ Alive /\ dbCbs > 0
    /\ dbState \in {"closing", "closed"}
    /\ dbState' = "closed"
    /\ dbCbs' = dbCbs - 1
    /\ OnDbClosed(err)
    /\ obs' = [obs EXCEPT !.dbFired = TRUE, !.dbErr = err, !.aborted = Busy]
    /\ ev' = "dbClosed"
    /\ UNCHANGED <<envVars, listening, everBound, sigHandler, sigterms, closeCbs, connVars,
                   hitVars, last>>

-----------------------------------------------------------------------------
(* Spec: the whole life of the process, from connectDB() to process.exit,   *)
(* with a request of each kind: one a responder answers, one a router       *)
(* takes, one the CORS check denies in production, one no route matches.    *)

LifeRequests ==
    { Req(1, "GET", <<>>, Undefined, FALSE, FALSE),
      Req(1, "GET", <<"api", "attendance">>, "http://localhost:3000", FALSE, FALSE),
      Req(1, "GET", <<"api", "health">>, "http://evil.example", FALSE, FALSE),
      Req(1, "GET", <<"nope">>, Undefined, FALSE, FALSE) }

LifeInit == Init /\ frontendUrl = Undefined

Next ==
    \/ ListenOk
    \/ ListenFail
    \/ ConnectFail
    \/ ServerError
    \/ Accept(MaxConns)
    \/ ConnClose
    \/ \E req \in LifeRequests : genHits[req.client] < LifeHits /\ Request(req)
    \/ \E result \in Results : RespondPlain(result)
    \/ Sigterm
    \/ EmitClose
    \/ \E err \in BOOLEAN : DbCloseCallback(err)

Spec == LifeInit /\ [][Next]_vars

\* The event loop runs a callback that is due; a request in a route handler gets
\* its response; an idle connection ends (the client closes it, or the
\* keep-alive timeout does).
Fairness ==
    /\ WF_vars(EmitClose)
    /\ WF_vars(\E err \in BOOLEAN : DbCloseCallback(err))
    /\ WF_vars(\E result \in Results : RespondPlain(result))
    /\ SF_vars(ConnClose)

SpecFair == Spec /\ Fairness

-----------------------------------------------------------------------------
(* The shutdown coordinator's state, read off the process. *)

Phase ==
    IF exitCode = 0 THEN "TERMINATED"
    ELSE IF exitCode = 1 THEN "FAILED"
    ELSE IF dbState = "connecting" THEN "STARTING"
    ELSE IF sigterms = 0 THEN "RUNNING"
    ELSE IF dbState = "connected" THEN "DRAINING"
    ELSE "DB_CLOSING"

\* C1: after SIGTERM the process goes RUNNING -> DRAINING -> DB_CLOSING ->
\* TERMINATED, one step at a time and never backwards, also when SIGTERM comes
\* again: the database close has started only if the listener-closed callback
\* has fired, and the process has exited with 0 only if the database-close
\* callback has fired.
C1_ShutdownOrder ==
    /\ [](dbState \in {"closing", "closed"} => obs.closedFired)
    /\ [](exitCode = 0 => obs.dbFired /\ dbState = "closed")
    /\ [][/\ Phase = "RUNNING" => Phase' \in {"RUNNING", "DRAINING", "FAILED"}
          /\ Phase = "DRAINING" => Phase' \in {"DRAINING", "DB_CLOSING"}
          /\ Phase = "DB_CLOSING" => Phase' \in {"DB_CLOSING", "TERMINATED"}
          /\ Phase = "TERMINATED" => Phase' = "TERMINATED"]_vars

C1_Witness ==
    exitCode = 0 /\ sigterms = MaxSignals /\ obs.closedFired /\ obs.dbFired

\* C2: after SIGTERM no connection is accepted, and the database connection is
\* closed (and the process exits 0) only when no request is in flight any more:
\* none was cut off, none runs against a closing or closed connection.
C2_CooperativeDrain ==
    /\ ~obs.lateAccept
    /\ (sigterms > 0 /\ dbState \in {"closing", "closed"}) => Busy = 0
    /\ exitCode = 0 => obs.aborted = 0

C2_Witness == exitCode = 0 /\ obs.atSignal = MaxConns

\* C3: the server listens only while mongoose.connect has succeeded and the
\* connection is not being closed, and when mongoose.connect fails the process
\* exits with a non-zero code and no port was ever bound.
C3_ListenOnlyWithDb ==
    /\ listening => dbState = "connected"
    /\ (idle + Busy > 0) => everBound
    /\ dbState = "failed" => (exitCode = 1 /\ ~everBound /\ ~listening)

C3_Witness == listening /\ Busy > 0 /\ dbState = "connected"

C9_OnlyStartupFailuresExit == exitCode = 1 => ~everBound

Ends(trace, name) == trace # <<>> /\ trace[Len(trace)] = name

\* C9, amended: a request never ends the process, a denied or failing request is
\* answered by the error handler and an unmatched one by the 404 responder; once
\* the server listens the process ends only with 1 on a server 'error' event or
\* with 0 at the end of the shutdown a SIGTERM started.
C9_RequestsNeverExit ==
    /\ [](last.by = "cors" => last.ctl = "end" /\ last.status >= 400
                              /\ Ends(last.trace, "errorHandler"))
    /\ [](last.by = "notFound" => last.ctl = "end" /\ last.status = 404)
    /\ [](obs.resp.result = "throw" => obs.resp.ctl = "end" /\ obs.resp.status >= 400
                                       /\ Ends(obs.resp.trace, "errorHandler"))
    /\ [](obs.resp.result = "miss" => obs.resp.ctl = "end" /\ obs.resp.status = 404)
    /\ [][ev' \in {"request", "respond"} => exitCode' = -1]_vars
    /\ [][(everBound /\ exitCode = -1 /\ exitCode' # -1) =>
            \/ ev' = "serverError" /\ exitCode' = 1
            \/ ev' = "dbClosed" /\ exitCode' = 0 /\ sigterms > 0]_vars

C9_Witness ==
    /\ Alive /\ listening
    /\ last.by = "cors"
    /\ obs.resp.result = "throw"

-----------------------------------------------------------------------------
(* SpecLimiter: two clients send requests until the general limiter rejects *)
(* them, and their windows end.                                             *)

ActiveClients == {1, NumClients}

IsAuthPath(req) ==
    \/ StartsWith(req.path, <<"api", "auth", "login">>)
    \/ StartsWith(req.path, <<"api", "auth", "register">>)

\* the request does not take a counter past the bound of the run
Within(req, genCap, authCap) ==
    /\ UnderApi(req) => genHits[req.client] < genCap
    /\ IsAuthPath(req) => authHits[req.client] < authCap

ProdInit == Init /\ nodeEnv = "production" /\ frontendUrl = Undefined

LimRequests ==
    { Req(c, "GET", p, Undefined, FALSE, FALSE) :
        c \in ActiveClients, p \in {<<>>, <<"api", "health">>} }

NextLimiter ==
    \/ ListenOk
    \/ Accept(1)
    \/ \E req \in LimRequests : Within(req, GeneralMax + HitSlack, 0) /\ Request(req)
    \/ \E c \in Clients : GenReset(c)

SpecLimiter == ProdInit /\ [][NextLimiter]_vars

\* C4: of the requests a client sends under /api/ in one window the limiter
\* rejects exactly those after the first GeneralMax: the 100th passes, the 101st
\* and every later one gets 429.
C4_GeneralLimit ==
    (last.req # NoReq /\ UnderApi(last.req)) =>
        ((last.by = "limiter" /\ last.status = 429) <=> (last.genBefore + 1 > GeneralMax))

C4_Witness ==
    /\ last.by = "limiter" /\ last.genBefore = GeneralMax
    /\ \E c \in Clients : c # last.req.client /\ genHits[c] = GeneralMax

-----------------------------------------------------------------------------
(* SpecAuth: one client's login and register requests, their responses in   *)
(* any order, and the end of its window in authLimiter's store.             *)

AuthRequests ==
    { Req(1, "POST", p, "http://localhost:3000", FALSE, FALSE) :
        p \in {<<"api", "auth", "login">>, <<"api", "auth", "register">>} }

NextAuth ==
    \/ ListenOk
    \/ Accept(AuthMax + HitSlack)
    \/ \E req \in AuthRequests : Within(req, AuthMax + HitSlack, AuthMax + HitSlack) /\ Request(req)
    \/ \E c \in Clients, result \in Results, old \in BOOLEAN : RespondAuth(c, result, old)
    \/ \E c \in Clients : AuthReset(c)

SpecAuth == ProdInit /\ [][NextAuth]_vars

\* C5: a login or register request that is answered successfully takes no quota,
\* and five failed ones take all of it. So when all of a client's requests of the
\* window are answered and authLimiter rejected one, five others had failed; and a
\* request that arrives after five failed ones is rejected.
C5_AuthQuota ==
    /\ \A c \in Clients :
         (pendingAuth[c] = 0 /\ obs.authRejected[c] > 0) => obs.authFailed[c] >= AuthMax
    /\ (last.req # NoReq /\ IsAuthPath(last.req) /\ last.failedBefore >= AuthMax)
         => last.status = 429

\* C10: after the window of a client has ended its requests are admitted and
\* rejected as a new client's are: by the count of the requests sent since.
C10_ResetNoCarryover ==
    /\ (last.req # NoReq /\ UnderApi(last.req)) =>
         ((last.by = "limiter") <=> (last.genBefore + 1 > GeneralMax))
    /\ (last.req # NoReq /\ IsAuthPath(last.req) /\ last.by # "limiter") =>
         ((last.by = "authLimiter") <=> (last.shadowBefore + 1 > AuthMax))

-----------------------------------------------------------------------------
(* SpecCors: requests with every kind of Origin header, under every         *)
(* NODE_ENV and FRONTEND_URL.                                               *)

CorsRequests ==
    { Req(1, m, <<>>, o, FALSE, FALSE) : m \in {"GET", "POST"}, o \in Origins }

NextCors ==
    \/ ListenOk
    \/ Accept(1)
    \/ ConnClose
    \/ \E req \in CorsRequests : Request(req)

SpecCors == Init /\ [][NextCors]_vars

\* the allow-list as the specification gives it: the two localhost origins and
\* FRONTEND_URL if it is set
Listed(origin, feUrl) ==
    \/ origin \in {"http://localhost:3000", "http://localhost:5173"}
    \/ (feUrl \notin {Undefined, ""} /\ origin = feUrl)

\* C6: the CORS check allows a request without an Origin (none, or an empty one),
\* with a listed Origin in every mode, and with any Origin outside production;
\* it denies only an unlisted Origin in production; what it allows, it allows
\* with credentials.
C6_CorsDecision ==
    last.req # NoReq =>
        LET o == last.req.origin
            expected == o \in {Undefined, ""} \/ Listed(o, frontendUrl)
                        \/ nodeEnv # "production"
        IN /\ (last.by = "cors") <=> ~expected
           /\ CorsDecision(o, nodeEnv, frontendUrl) =
                [allow |-> expected, credentials |-> expected]

C6_Witness ==
    /\ last.by = "cors" /\ last.req.origin = "https://app.example.com"
    /\ nodeEnv = "production"

-----------------------------------------------------------------------------
(* SpecPipeline: in production, requests of every kind from an unlisted     *)
(* Origin and without one, until both limiters reject.                      *)

PipeRequests ==
    { Req(1, "GET", <<>>, o, FALSE, FALSE) : o \in {Undefined, "http://evil.example"} }
    \cup { Req(1, "GET", <<"api", "health">>, o, FALSE, FALSE) :
             o \in {Undefined, "http://evil.example"} }
    \cup { Req(1, "POST", <<"api", "auth", "login">>, o, FALSE, b) :
             o \in {Undefined, "http://evil.example"}, b \in BOOLEAN }
    \cup { Req(1, "GET", <<"api", "uploads", "a.png">>, o, f, FALSE) :
             o \in {Undefined, "http://evil.example"}, f \in BOOLEAN }
    \cup { Req(1, "GET", <<"api", "nope">>, "http://evil.example", FALSE, FALSE) }

NextPipeline ==
    \/ ListenOk
    \/ Accept(1)
    \/ \E req \in PipeRequests :
         Within(req, GeneralMax + HitSlack, AuthMax + HitSlack) /\ Request(req)
    \/ \E c \in Clients, result \in Results : RespondAuth(c, result, FALSE)
    \/ \E c \in Clients : AuthReset(c)

SpecPipeline == ProdInit /\ [][NextPipeline]_vars

\* the order of the stages as the specification gives it
Rank(name) ==
    CASE name = "helmet" -> 1
      [] name \in {"limiter", "authLimiter"} -> 2
      [] name = "morgan" -> 3
      [] name = "cors" -> 4
      [] name \in {"json", "urlencoded"} -> 5
      [] name \in DispatchStages -> 6
      [] OTHER -> 7

\* C8: a request passes the stages in the order security headers, rate
\* limiters, logger, CORS check, body parsers, dispatch; one a limiter rejects or
\* the CORS check denies reaches no static server, responder or router; one that
\* is over a limit and from a denied Origin is rejected by the limiter.
C8_StageOrder ==
    last.req # NoReq =>
        LET t == last.trace
            denied == corsOrigin(last.req.origin, nodeEnv, frontendUrl) = "deny"
        IN /\ t[1] = "helmet"
           /\ \A i, j \in 1..Len(t) : i < j => Rank(t[i]) <= Rank(t[j])
           /\ last.by \in {"limiter", "authLimiter"} =>
                (last.status = 429 /\ Ends(t, last.by))
           /\ last.by \in {"limiter", "authLimiter", "cors"} =>
                (\A i \in 1..Len(t) : t[i] \notin DispatchStages)
           /\ last.by \in DispatchStages =>
                \A n \in {"helmet", "morgan", "cors", "json", "urlencoded"} : Includes(t, n)
           /\ (UnderApi(last.req) /\ last.genBefore >= GeneralMax /\ denied) =>
                last.by = "limiter"
           /\ (IsAuthPath(last.req) /\ last.authBefore >= AuthMax /\ denied) =>
                last.by \in {"limiter", "authLimiter"}

C8_Witness ==
    /\ last.by = "limiter" /\ last.req.origin = "http://evil.example"
    /\ IsAuthPath(last.req) /\ last.authBefore >= AuthMax

====
